---- MODULE Spec2Model ----
(***************************************************************************)
(* Model of the autonomous agent of sarabjeethdm/agentic_ai:               *)
(*   agent/state.py      AgentState                                        *)
(*   agent/planner.py    extract_json, generate_plan                       *)
(*   agent/executor.py   execute_plan                                      *)
(*   agent/reflector.py  reflect                                           *)
(*   agent/memory.py     MemoryStore                                       *)
(*   agent/autonomous.py run_autonomous_agent                              *)
(*                                                                         *)
(* Three specifications share the variables:                               *)
(*   Spec      one invocation of run_autonomous_agent                      *)
(*   SpecExec  execute_plan called on a fresh AgentState                   *)
(*   SpecMem   the MemoryStore operations called on a constructed store    *)
(***************************************************************************)
EXTENDS Integers, Sequences, FiniteSets, TLC

VARIABLES
    pc,          \* position of the run / of the caller
    creds,       \* credentials visible to MemoryStore.__init__
    use_memory,  \* argument of run_autonomous_agent
    memory,      \* "none" (memory is None) or the client_type of the store
    container,   \* documents of the backing collection / container
    clock,       \* value read by datetime.utcnow()
    state,       \* the AgentState of the run
    max_steps,   \* argument of execute_plan
    calls,       \* log of the model invocations (agent.run)
    memLog,      \* log of the MemoryStore operations the run invoked
    decision,    \* value returned by reflect
    result,      \* result string of the run
    exc,         \* exception propagating, "none" when there is none
    caught,      \* exception bound by `except Exception as e`, else "none"
    outcome,     \* "running", "returned" or "raised"
    ret,         \* what the last MemoryStore operation gave its caller
    container0   \* the container as it was when the run began

vars == <<pc, creds, use_memory, memory, container, clock, state, max_steps,
          calls, memLog, decision, result, exc, caught, outcome, ret, container0>>

(***************************************************************************)
(* Bounds of the model.                                                    *)
(***************************************************************************)
MaxPlanLen == 2      \* longest plan enumerated, besides the over-long one
MaxStepLimit == 3    \* largest max_steps passed to execute_plan in SpecExec
MaxInitDocs == 1     \* documents already in the container at the start
MaxDocs == 2         \* documents the container holds at most in SpecMem
MaxClock == 1        \* last value of the clock

(***************************************************************************)
(* Program constants.                                                      *)
(***************************************************************************)
DefaultMaxSteps == 10    \* execute_plan(agent, state, max_steps=10)
HistoryLimit == 5        \* history_limit=5 in run_autonomous_agent
SimilarLimit == 3        \* similar_limit=3 in run_autonomous_agent

Min(a, b) == IF a <= b THEN a ELSE b

Last(s) == s[Len(s)]

(***************************************************************************)
(* Values of the external collaborators.                                   *)
(***************************************************************************)
Goal == "goal"
Sessions == {"sA", "sB"}
StepTexts == {"s1", "s2"}
Outputs == {"obs_a", "obs_b"}

(***************************************************************************)
(* agent/state.py: AgentState.  plan is [kind, items]: kind "list" is a    *)
(* list of strings; "str" a single string (items are its characters);      *)
(* "null" and "num" are values without a length.                           *)
(***************************************************************************)
ListPlan(items) == [kind |-> "list", items |-> items]

HasLen(plan) == plan.kind \in {"list", "str"}

PlanLen(plan) == Len(plan.items)

NoContext ==
    [set |-> FALSE, recent_history |-> <<>>, similar_interactions |-> <<>>]

AgentState(session) ==
    [ session_id   |-> session,
      plan         |-> ListPlan(<<>>),
      current_step |-> 0,
      observations |-> <<>>,
      completed    |-> FALSE,
      context      |-> NoContext ]

\* `if state.context:` (a context dict always has its two keys)
HasContext(st) == st.context.set

(***************************************************************************)
(* agent/planner.py.  The planner output is a sequence of tokens: "txt" is *)
(* text without braces, "{" and "}" are braces, "member" stands for one    *)
(* `"key": value` member of a JSON object.                                 *)
(***************************************************************************)
Txt == [t |-> "txt", key |-> "", value |-> ListPlan(<<>>)]
LBrace == [t |-> "{", key |-> "", value |-> ListPlan(<<>>)]
RBrace == [t |-> "}", key |-> "", value |-> ListPlan(<<>>)]
Member(k, v) == [t |-> "member", key |-> k, value |-> v]

Positions(text, tok) == {i \in 1..Len(text) : text[i].t = tok}

SetMin(S) == CHOOSE i \in S : \A j \in S : i <= j
SetMax(S) == CHOOSE i \in S : \A j \in S : i >= j

\* re.search(r"\{.*\}", text, re.DOTALL): from the first "{" to the LAST "}"
\* after it; <<>> stands for "no match".
RegexMatch(text) ==
    LET opens == Positions(text, "{")
    IN  IF opens = {} THEN <<>>
        ELSE LET first == SetMin(opens)
                 closes == {i \in Positions(text, "}") : i > first}
             IN  IF closes = {} THEN <<>>
                 ELSE SubSeq(text, first, SetMax(closes))

\* json.loads of a fragment that starts with "{" and ends with "}": it parses
\* when everything between the two braces is a member.
JsonParses(frag) ==
    /\ Len(frag) >= 2
    /\ \A i \in 2..(Len(frag) - 1) : frag[i].t = "member"

\* data["steps"] of the parsed object (the last duplicate key wins)
StepsMembers(frag) == {i \in 1..Len(frag) : frag[i].t = "member" /\ frag[i].key = "steps"}

\* generate_plan's try block: [ok, plan]; ~ok is the RuntimeError raised
\* for a ValueError, JSONDecodeError or KeyError.
ParsePlan(text) ==
    LET frag == RegexMatch(text)
    IN  IF frag = <<>> \/ ~JsonParses(frag) \/ StepsMembers(frag) = {}
        THEN [ok |-> FALSE, plan |-> ListPlan(<<>>)]
        ELSE [ok |-> TRUE, plan |-> frag[SetMax(StepsMembers(frag))].value]

(***************************************************************************)
(* agent/executor.py: execute_plan.                                        *)
(***************************************************************************)
\* the loop condition with the step limit compared by <=
LoopConditionInclusive(st, m) ==
    /\ ~st.completed
    /\ st.current_step < PlanLen(st.plan)
    /\ st.current_step <= m

\* the condition of the while loop
LoopCondition(st, m) ==
    /\ ~st.completed
    /\ st.current_step < PlanLen(st.plan)
    /\ st.current_step < m

\* len(state.plan) raises TypeError for a plan that has no length
LenRaises(st) == ~st.completed /\ ~HasLen(st.plan)

\* the prompt built from the first step of the plan whatever the cursor
StepPromptFirstStep(st) ==
    [ phase        |-> "execute",
      index        |-> st.current_step + 1,
      step         |-> st.plan.items[1],
      with_context |-> (st.current_step = 0 /\ HasContext(st)) ]

\* the prompt of one iteration, as far as the log keeps it
StepPrompt(st) ==
    [ phase        |-> "execute",
      index        |-> st.current_step + 1,
      step         |-> st.plan.items[st.current_step + 1],
      with_context |-> (st.current_step = 0 /\ HasContext(st)) ]

\* the cursor advanced without the output being appended
RecordObservationNoAppend(st, o) ==
    [st EXCEPT !.current_step = @ + 1]

\* the output appended without the cursor being advanced
RecordObservationNoIncrement(st, o) ==
    [st EXCEPT !.observations = Append(@, o)]

\* state.observations.append(result.output); state.current_step += 1
RecordObservation(st, o) ==
    [st EXCEPT !.observations = Append(@, o), !.current_step = @ + 1]

Invocation(prompt, ok, output) ==
    [ phase |-> prompt.phase, index |-> prompt.index, step |-> prompt.step,
      with_context |-> prompt.with_context, ok |-> ok, output |-> output ]

\* one iteration of the loop whose model invocation returns
ExecStep ==
    /\ pc = "exec"
    /\ ~LenRaises(state)
    /\ LoopCondition(state, max_steps)
    /\ \E o \in Outputs :
          /\ calls' = Append(calls, Invocation(StepPrompt(state), TRUE, o))
          /\ state' = RecordObservation(state, o)
    /\ UNCHANGED <<pc, creds, use_memory, memory, container, clock, max_steps,
                   memLog, decision, result, exc, caught, outcome, ret, container0>>

\* one iteration of the loop whose model invocation raises
ExecStepRaises ==
    /\ pc = "exec"
    /\ ~LenRaises(state)
    /\ LoopCondition(state, max_steps)
    /\ calls' = Append(calls, Invocation(StepPrompt(state), FALSE, ""))
    /\ exc' = "ExecModelError"
    /\ pc' = "error"
    /\ UNCHANGED <<creds, use_memory, memory, container, clock, state, max_steps,
                   memLog, decision, result, caught, outcome, ret, container0>>

\* the loop condition itself raises
ExecLenRaises ==
    /\ pc = "exec"
    /\ LenRaises(state)
    /\ exc' = "TypeError"
    /\ pc' = "error"
    /\ UNCHANGED <<creds, use_memory, memory, container, clock, state, max_steps,
                   calls, memLog, decision, result, caught, outcome, ret, container0>>

\* the loop ended without completed being set
ExecExitWithoutCompleted ==
    /\ pc = "exec"
    /\ ~LenRaises(state)
    /\ ~LoopCondition(state, max_steps)
    /\ pc' = "reflect"
    /\ UNCHANGED <<creds, use_memory, memory, container, clock, state, max_steps,
                   calls, memLog, decision, result, exc, caught, outcome, ret, container0>>

\* the loop ends: state.completed = True
ExecExit ==
    /\ pc = "exec"
    /\ ~LenRaises(state)
    /\ ~LoopCondition(state, max_steps)
    /\ state' = [state EXCEPT !.completed = TRUE]
    /\ pc' = "reflect"
    /\ UNCHANGED <<creds, use_memory, memory, container, clock, max_steps,
                   calls, memLog, decision, result, exc, caught, outcome, ret, container0>>

(***************************************************************************)
(* agent/reflector.py: reflect.  The model output is a sequence of words;  *)
(* " " is whitespace.                                                      *)
(***************************************************************************)
valid_decisions == <<"CONTINUE", "RETRY", "FAIL">>

Upper(w) ==
    CASE w = "continue" -> "CONTINUE"
      [] w = "retry" -> "RETRY"
      [] w = "fail" -> "FAIL"
      [] w = "failure" -> "FAILURE"
      [] w = "x" -> "X"
      [] OTHER -> w

RECURSIVE LStrip(_)
LStrip(text) ==
    IF text # <<>> /\ Head(text) = " " THEN LStrip(Tail(text)) ELSE text

RECURSIVE RStrip(_)
RStrip(text) ==
    IF text # <<>> /\ Last(text) = " "
    THEN RStrip(SubSeq(text, 1, Len(text) - 1)) ELSE text

\* result.output.strip().upper()
Normalise(text) ==
    LET stripped == RStrip(LStrip(text))
    IN  [i \in 1..Len(stripped) |-> Upper(stripped[i])]

\* `valid in word` for one word of the text
WordContains(w, valid) == w = valid \/ (w = "FAILURE" /\ valid = "FAIL")

\* `valid in decision`, substring search
Occurs(valid, text) == \E i \in 1..Len(text) : WordContains(text[i], valid)

\* reflect with the output trimmed but not upper-cased
DecideWithoutUpper(output) ==
    LET d == RStrip(LStrip(output))
        exact == Len(d) = 1 /\ \E k \in 1..3 : d[1] = valid_decisions[k]
        found == {k \in 1..3 : Occurs(valid_decisions[k], d)}
    IN  IF exact THEN d[1]
        ELSE IF found # {} THEN valid_decisions[SetMin(found)]
        ELSE "CONTINUE"

\* reflect returning the token that occurs first in the text
DecideByPosition(output) ==
    LET d == Normalise(output)
        exact == Len(d) = 1 /\ \E k \in 1..3 : d[1] = valid_decisions[k]
        at(k) == {i \in 1..Len(d) : WordContains(d[i], valid_decisions[k])}
        found == {k \in 1..3 : at(k) # {}}
    IN  IF exact THEN d[1]
        ELSE IF found # {}
             THEN valid_decisions[CHOOSE k \in found :
                                      \A j \in found : SetMin(at(k)) <= SetMin(at(j))]
        ELSE "CONTINUE"

\* lines 45-57 of reflect
Decide(output) ==
    LET d == Normalise(output)
        exact == Len(d) = 1 /\ \E k \in 1..3 : d[1] = valid_decisions[k]
        found == {k \in 1..3 : Occurs(valid_decisions[k], d)}
    IN  IF exact THEN d[1]
        ELSE IF found # {} THEN valid_decisions[SetMin(found)]
        ELSE "CONTINUE"

(***************************************************************************)
(* agent/memory.py: MemoryStore.                                           *)
(***************************************************************************)
ConnectionStrings == {"", "mongodb://h", "postgres://h"}

Credentials ==
    [endpoint : BOOLEAN, key : BOOLEAN, connection_string : ConnectionStrings]

\* self.connection_string.startswith("mongodb")
StartsWithMongodb(cs) == cs = "mongodb://h"

\* the selection with the connection string tested before endpoint and key
InitCosmosClientMongoFirst(c) ==
    IF c.connection_string # "" /\ StartsWithMongodb(c.connection_string)
    THEN "mongodb"
    ELSE IF c.endpoint /\ c.key THEN "sql"
    ELSE "ValueError"

\* _init_cosmos_client: the client_type selected, or the ValueError raised
InitCosmosClient(c) ==
    IF c.endpoint /\ c.key THEN "sql"
    ELSE IF c.connection_string # "" /\ StartsWithMongodb(c.connection_string)
         THEN "mongodb"
    ELSE "ValueError"

\* MemoryStore(): [client_type, error]; connect_ok is whether the client
\* library connects (_init_sql_client and _init_mongodb_client re-raise)
NewMemoryStore(c, connect_ok) ==
    LET sel == InitCosmosClient(c)
    IN  IF sel = "ValueError" THEN [client_type |-> "none", error |-> "ValueError"]
        ELSE IF ~connect_ok THEN [client_type |-> "none", error |-> "ConnectError"]
        ELSE [client_type |-> sel, error |-> "none"]

\* embeddings the service may return; NoEmbedding is a missing or empty field
EmbVals == {<<1, 0>>, <<1, 1>>}
QueryEmbVals == {<<1, 0>>, <<0, 1>>}
NoEmbedding == <<>>

RECURSIVE DotFrom(_, _, _)
DotFrom(a, b, i) == IF i > Len(a) THEN 0 ELSE a[i] * b[i] + DotFrom(a, b, i + 1)

\* np.dot
Dot(a, b) == DotFrom(a, b, 1)

\* np.linalg.norm, squared
NormSq(a) == Dot(a, a)

\* Cosine similarity dot/(|a||b|), kept exactly as c*|c| = num/den with
\* den > 0 (an order-preserving image of the cosine c).
CosineSimilarity(a, b) ==
    LET d == Dot(a, b)
    IN  [num |-> (IF d < 0 THEN -(d * d) ELSE d * d), den |-> NormSq(a) * NormSq(b)]

ScoreGt(x, y) == x.num * y.den > y.num * x.den

\* min_score=0.7, as 0.7*|0.7| = 49/100
DefaultMinScore == [num |-> 49, den |-> 100]

\* the fields every retrieval returns: the document without embedding, id
\* and the backend's internal fields
View(d) ==
    [ session_id |-> d.session_id, timestamp |-> d.timestamp, goal |-> d.goal,
      plan |-> d.plan, observations |-> d.observations, result |-> d.result,
      metadata |-> d.metadata ]

Scored(d, score) ==
    [ session_id |-> d.session_id, timestamp |-> d.timestamp, goal |-> d.goal,
      plan |-> d.plan, observations |-> d.observations, result |-> d.result,
      metadata |-> d.metadata, SimilarityScore |-> score ]

\* the documents in the order the backend enumerates them
Arrange(docs, order) == [i \in 1..Len(docs) |-> docs[order[i]]]

Orders(docs) == Permutations(1..Len(docs))

\* x put into the sorted s behind the elements whose key is not smaller
RECURSIVE InsertDesc(_, _)
InsertDesc(x, s) ==
    IF s = <<>> THEN <<x>>
    ELSE IF ScoreGt(x.k, Head(s).k) THEN <<x>> \o s
    ELSE <<Head(s)>> \o InsertDesc(x, Tail(s))

RECURSIVE SortKeyed(_)
SortKeyed(s) ==
    IF s = <<>> THEN <<>>
    ELSE InsertDesc(s[Len(s)], SortKeyed(SubSeq(s, 1, Len(s) - 1)))

Keyed(rows, Key(_)) == [i \in 1..Len(rows) |-> [k |-> Key(rows[i]), d |-> rows[i]]]

Unkeyed(s) == [i \in 1..Len(s) |-> s[i].d]

\* stable sort, greatest key first (list.sort(reverse=True), ORDER BY ... DESC)
SortDesc(rows, Key(_)) == Unkeyed(SortKeyed(Keyed(rows, Key)))

\* s[:n], TOP n, .limit(n)
Take(s, n) == SubSeq(s, 1, Min(n, Len(s)))

\* s[::-1]
Reverse(s) == [i \in 1..Len(s) |-> s[Len(s) + 1 - i]]

\* the key of ORDER BY c.timestamp
Timestamp(d) == [num |-> d.timestamp, den |-> 1]

HasEmbedding(d) == d.embedding # NoEmbedding

Similarity(q, d) == CosineSimilarity(q, d.embedding)

\* what one call of a retrieval operation meets outside the program: the
\* embedding service, each tier's query, and the order in which the backend
\* enumerates the documents.  A choice that the call never reaches (a later
\* tier when an earlier one returns) is fixed to one value.
RetrievalEnvs(docs) ==
    { e \in [ embed_ok : BOOLEAN, qemb : QueryEmbVals, native_ok : BOOLEAN,
              fetch_ok : BOOLEAN, simple_ok : BOOLEAN, order : Orders(docs) ] :
        /\ e.native_ok => e.fetch_ok
        /\ e.fetch_ok => e.simple_ok
        /\ ~e.embed_ok => (e.native_ok /\ e.qemb = <<1, 0>>) }

Tier(name, ok) == [tier |-> name, ok |-> ok]

\* the result of a tier that ran after the tier `first` had failed
After(first, r) == [value |-> r.value, tiers |-> <<Tier(first, FALSE)>> \o r.tiers]

\* the rows of a query without the embedding, id and internal fields
Views(rows) == [i \in 1..Len(rows) |-> View(rows[i])]

\* the same, with item["SimilarityScore"] set
ScoredViews(q, rows) ==
    [i \in 1..Len(rows) |-> Scored(rows[i], Similarity(q, rows[i]))]

\* the documents, least similar to q first
SortBySimilarityAscending(q, rows) ==
    Reverse(SortDesc(rows, LAMBDA d : Similarity(q, d)))

\* the documents, most similar to q first
SortBySimilarity(q, rows) ==
    SortDesc(rows, LAMBDA d : Similarity(q, d))

\* the listing ordered oldest first (ORDER BY c.timestamp ASC)
SqlSimpleQueryOldestFirst(docs, env, limit) ==
    IF ~env.simple_ok
    THEN [value |-> <<>>, tiers |-> <<Tier("simple", FALSE)>>]
    ELSE [ value |-> Views(Take(Reverse(SortDesc(Arrange(docs, env.order), Timestamp)),
                                limit)),
           tiers |-> <<Tier("simple", TRUE)>> ]

\* _sql_simple_query
SqlSimpleQuery(docs, env, limit) ==
    IF ~env.simple_ok
    THEN [value |-> <<>>, tiers |-> <<Tier("simple", FALSE)>>]
    ELSE [ value |-> Views(Take(SortDesc(Arrange(docs, env.order), Timestamp), limit)),
           tiers |-> <<Tier("simple", TRUE)>> ]

\* the ranking that scores a record without embedding 0 instead of skipping it
ManualSimilarityNoSkip(docs, env, limit) ==
    LET score(d) == IF HasEmbedding(d) THEN Similarity(env.qemb, d)
                    ELSE [num |-> 0, den |-> 1]
        rows == Take(SortDesc(Arrange(docs, env.order), score), limit)
    IN  [i \in 1..Len(rows) |-> Scored(rows[i], score(rows[i]))]

\* the try block of _sql_manual_similarity_search, lines 346-382
ManualSimilarity(docs, env, limit) ==
    ScoredViews(env.qemb,
        Take(SortBySimilarity(env.qemb,
                 SelectSeq(Arrange(docs, env.order), HasEmbedding)), limit))

\* _sql_manual_similarity_search
SqlManualSimilaritySearch(docs, env, limit) ==
    IF env.fetch_ok
    THEN [ value |-> ManualSimilarity(docs, env, limit),
           tiers |-> <<Tier("manual", TRUE)>> ]
    ELSE After("manual", SqlSimpleQuery(docs, env, limit))

\* the VectorDistance query of _sql_vector_search, when the container runs it
SqlNativeRows(docs, env, limit, min_score) ==
    LET above(d) == HasEmbedding(d) /\ ScoreGt(Similarity(env.qemb, d), min_score)
    IN  ScoredViews(env.qemb,
            Take(SortBySimilarity(env.qemb,
                     SelectSeq(Arrange(docs, env.order), above)), limit))

\* the native search falling back also when it returns no rows
SqlVectorSearchFallsBackOnEmpty(docs, env, limit, min_score) ==
    IF env.native_ok /\ SqlNativeRows(docs, env, limit, min_score) # <<>>
    THEN [ value |-> SqlNativeRows(docs, env, limit, min_score),
           tiers |-> <<Tier("native", TRUE)>> ]
    ELSE LET r == SqlManualSimilaritySearch(docs, env, limit)
         IN  [value |-> r.value, tiers |-> <<Tier("native", env.native_ok)>> \o r.tiers]

\* _sql_vector_search
SqlVectorSearch(docs, env, limit, min_score) ==
    IF env.native_ok
    THEN [ value |-> SqlNativeRows(docs, env, limit, min_score),
           tiers |-> <<Tier("native", TRUE)>> ]
    ELSE After("native", SqlManualSimilaritySearch(docs, env, limit))

\* the cosmosSearch pipeline of _mongodb_vector_search, when the index runs it
MongoNativeRows(docs, env, limit) ==
    Views(Take(SortBySimilarity(env.qemb,
                   SelectSeq(Arrange(docs, env.order), HasEmbedding)), limit))

\* _mongodb_vector_search
MongodbVectorSearch(docs, env, limit) ==
    IF env.native_ok
    THEN [value |-> MongoNativeRows(docs, env, limit), tiers |-> <<Tier("native", TRUE)>>]
    ELSE [value |-> <<>>, tiers |-> <<Tier("native", FALSE)>>]

Returned(found) ==
    [value |-> found.value, tiers |-> found.tiers, embed_ok |-> TRUE, raised |-> FALSE]

\* lines 222-229, the try block of retrieve_similar_interactions; raised is
\* the exception of generate_embedding
RetrieveSimilarTry(client_type, docs, env, limit, min_score) ==
    IF ~env.embed_ok
    THEN [value |-> <<>>, tiers |-> <<>>, embed_ok |-> FALSE, raised |-> TRUE]
    ELSE IF client_type = "mongodb"
         THEN Returned(MongodbVectorSearch(docs, env, limit))
         ELSE Returned(SqlVectorSearch(docs, env, limit, min_score))

\* the try block without its except clause
ReturnUncaught(body) == body

\* lines 230-232: except Exception: return []
ReturnEmptyOnException(body) ==
    IF body.raised
    THEN [value |-> <<>>, tiers |-> body.tiers, embed_ok |-> body.embed_ok,
          raised |-> FALSE]
    ELSE body

\* retrieve_similar_interactions: [value, tiers, embed_ok, raised]
RetrieveSimilarInteractions(client_type, docs, env, limit, min_score) ==
    ReturnEmptyOnException(RetrieveSimilarTry(client_type, docs, env, limit, min_score))

\* pymongo's cursor.limit(n): a limit of 0 is no limit
CursorLimit(s, n) == IF n = 0 THEN s ELSE Take(s, n)

\* .limit(limit) of the mongodb branch, TOP {limit} of the sql branch
HistoryLimited(client_type, s, n) ==
    IF client_type = "mongodb" THEN CursorLimit(s, n) ELSE Take(s, n)

\* get_recent_history without the final reversal
GetRecentHistoryNewestFirst(client_type, docs, order, session, limit, query_ok) ==
    IF ~query_ok THEN <<>>
    ELSE LET mine(d) == d.session_id = session
         IN  Views(HistoryLimited(client_type,
                 SortDesc(SelectSeq(Arrange(docs, order), mine), Timestamp), limit))

\* get_recent_history; query_ok is whether the backend query returns
GetRecentHistory(client_type, docs, order, session, limit, query_ok) ==
    IF ~query_ok THEN <<>>
    ELSE LET mine(d) == d.session_id = session
         IN  Reverse(Views(HistoryLimited(client_type,
                 SortDesc(SelectSeq(Arrange(docs, order), mine), Timestamp), limit)))

\* get_relevant_context
GetRelevantContext(client_type, docs, env, session, history_limit, similar_limit, query_ok) ==
    [ set |-> TRUE,
      recent_history |-> GetRecentHistory(client_type, docs, env.order, session,
                                          history_limit, query_ok),
      similar_interactions |->
          RetrieveSimilarInteractions(client_type, docs, env, similar_limit,
                                      DefaultMinScore).value ]

\* what one call of store_interaction meets outside the program: the
\* embedding service, the backend insertion, and the two clock readings
StoreEnvs ==
    { e \in [ embed_ok : BOOLEAN, emb : EmbVals, insert_ok : BOOLEAN,
              t1 : {clock}, t2 : clock..MaxClock ] : e.t2 <= e.t1 + 1 }

\* ' -> '.join(plan) raises TypeError for a plan that is no sequence
JoinRaises(plan) == ~HasLen(plan)

\* the document store_interaction assembles; "id" is only set for sql
Document(client_type, a, env) ==
    [ session_id |-> a.session_id, timestamp |-> env.t1, goal |-> a.goal,
      plan |-> a.plan, observations |-> a.observations, result |-> a.result,
      embedding |-> env.emb, metadata |-> a.metadata,
      id |-> IF client_type = "sql" THEN <<a.session_id, env.t2>> ELSE <<>> ]

\* create_item rejects an id already present in the partition (session_id)
IdConflict(docs, d) ==
    \E i \in 1..Len(docs) :
        docs[i].id # <<>> /\ docs[i].id = d.id /\ docs[i].session_id = d.session_id

\* the insertion without its `else`: a mongodb document is inserted by both
\* branches
StoreInteractionBothBranches(client_type, docs, a, env) ==
    LET d == Document(client_type, a, env)
    IN  IF JoinRaises(a.plan) THEN [ok |-> FALSE, docs |-> docs, error |-> "join"]
        ELSE IF ~env.embed_ok THEN [ok |-> FALSE, docs |-> docs, error |-> "embedding"]
        ELSE IF ~env.insert_ok THEN [ok |-> FALSE, docs |-> docs, error |-> "insert"]
        ELSE IF client_type = "sql" /\ IdConflict(docs, d)
             THEN [ok |-> FALSE, docs |-> docs, error |-> "conflict"]
        ELSE IF client_type = "mongodb"
             THEN [ok |-> TRUE, docs |-> Append(Append(docs, d), d), error |-> "none"]
        ELSE [ok |-> TRUE, docs |-> Append(docs, d), error |-> "none"]

\* the document inserted before its embedding is generated
StoreInteractionInsertFirst(client_type, docs, a, env) ==
    LET d == Document(client_type, a, env)
        partial == [d EXCEPT !.embedding = NoEmbedding]
    IN  IF JoinRaises(a.plan) THEN [ok |-> FALSE, docs |-> docs, error |-> "join"]
        ELSE IF ~env.embed_ok
             THEN [ok |-> FALSE, docs |-> Append(docs, partial), error |-> "embedding"]
        ELSE IF ~env.insert_ok THEN [ok |-> FALSE, docs |-> docs, error |-> "insert"]
        ELSE IF client_type = "sql" /\ IdConflict(docs, d)
             THEN [ok |-> FALSE, docs |-> docs, error |-> "conflict"]
        ELSE [ok |-> TRUE, docs |-> Append(docs, d), error |-> "none"]

\* store_interaction: [ok, docs, error]; ~ok is the exception re-raised, and
\* error the call that raised it
StoreInteraction(client_type, docs, a, env) ==
    LET d == Document(client_type, a, env)
    IN  IF JoinRaises(a.plan) THEN [ok |-> FALSE, docs |-> docs, error |-> "join"]
        ELSE IF ~env.embed_ok THEN [ok |-> FALSE, docs |-> docs, error |-> "embedding"]
        ELSE IF ~env.insert_ok THEN [ok |-> FALSE, docs |-> docs, error |-> "insert"]
        ELSE IF client_type = "sql" /\ IdConflict(docs, d)
             THEN [ok |-> FALSE, docs |-> docs, error |-> "conflict"]
        ELSE [ok |-> TRUE, docs |-> Append(docs, d), error |-> "none"]

\* close: the calls it makes on the client, <<>> for the sql client, which
\* is not closed
CloseClient(client_type, close_ok) ==
    IF client_type = "mongodb" THEN <<[tier |-> "client.close", ok |-> close_ok]>>
    ELSE <<>>

\* close that closes the client of either backend
CloseRaisesAnyClient(client_type, close_ok) == ~close_ok

\* close: TRUE when it raises; only the mongodb client is closed
CloseRaises(client_type, close_ok) == client_type = "mongodb" /\ ~close_ok

(***************************************************************************)
(* agent/autonomous.py: run_autonomous_agent.                              *)
(***************************************************************************)
RunSession == "sA"

FailMessage == "Agent failed to complete the task."
RetryMessage == "Task needs refinement. Consider rephrasing or breaking into smaller goals."
NoObservationsMessage == "Task completed but no observations recorded."

\* f"Error during execution: {str(e)}"
ErrorResult(e) == "Error during execution: " \o e

\* the result string taken from the first observation instead of the last
ResultForFirstObservation(d, st) ==
    IF d = "FAIL" THEN FailMessage
    ELSE IF d = "RETRY" THEN RetryMessage
    ELSE IF st.observations # <<>> THEN st.observations[1]
    ELSE NoObservationsMessage

\* lines 78-88: the result string for a decision
ResultFor(d, st) ==
    IF d = "FAIL" THEN FailMessage
    ELSE IF d = "RETRY" THEN RetryMessage
    ELSE IF st.observations # <<>> THEN Last(st.observations)
    ELSE NoObservationsMessage

\* the arguments of the store_interaction call of lines 93-103
SuccessRecord(st, d, res) ==
    [ session_id |-> st.session_id, goal |-> Goal, plan |-> st.plan,
      observations |-> st.observations, result |-> res,
      metadata |-> [decision |-> d, steps_executed |-> st.current_step] ]

\* the error record carrying state.observations without the error string
ErrorRecordStateObservations(st, e) ==
    [ session_id |-> st.session_id, goal |-> Goal, plan |-> st.plan,
      observations |-> st.observations,
      result |-> ErrorResult(e),
      metadata |-> [error |-> TRUE, error_message |-> e] ]

\* the arguments of the store_interaction call of lines 117-124
ErrorRecord(st, e) ==
    [ session_id |-> st.session_id, goal |-> Goal, plan |-> st.plan,
      observations |-> Append(st.observations, ErrorResult(e)),
      result |-> ErrorResult(e),
      metadata |-> [error |-> TRUE, error_message |-> e] ]

MemOp(op, ok) == [op |-> op, ok |-> ok]
StoreOp(ok, a) == [op |-> "store_interaction", ok |-> ok, args |-> a]

\* the run ended by the exception of MemoryStore()
ConstructMemoryFatal ==
    /\ pc = "start"
    /\ IF use_memory
       THEN \E connect_ok \in BOOLEAN :
              LET m == NewMemoryStore(creds, connect_ok)
              IN  /\ memory' = m.client_type
                  /\ memLog' = Append(memLog, MemOp("construct", m.error = "none"))
                  /\ exc' = m.error
                  /\ pc' = IF m.error = "none" THEN "mcp" ELSE "done"
                  /\ outcome' = IF m.error = "none" THEN outcome ELSE "raised"
       ELSE /\ pc' = "mcp"
            /\ UNCHANGED <<memory, memLog, exc, outcome>>
    /\ UNCHANGED <<creds, use_memory, container, clock, state, max_steps, calls,
                   decision, result, caught, ret, container0>>

\* lines 37-44: memory = MemoryStore() when use_memory, failure swallowed
ConstructMemory ==
    /\ pc = "start"
    /\ IF use_memory
       THEN \E connect_ok \in BOOLEAN :
              LET m == NewMemoryStore(creds, connect_ok)
              IN  /\ memory' = m.client_type
                  /\ memLog' = Append(memLog, MemOp("construct", m.error = "none"))
       ELSE UNCHANGED <<memory, memLog>>
    /\ pc' = "mcp"
    /\ UNCHANGED <<creds, use_memory, container, clock, state, max_steps, calls,
                   decision, result, exc, caught, outcome, ret, container0>>

\* line 46: agent.run_mcp_servers() is entered
StartServers ==
    /\ pc = "mcp"
    /\ pc' = "context"
    /\ UNCHANGED <<creds, use_memory, memory, container, clock, state, max_steps,
                   calls, memLog, decision, result, exc, caught, outcome, ret, container0>>

\* line 46: entering agent.run_mcp_servers() raises; nothing below runs
StartServersRaises ==
    /\ pc = "mcp"
    /\ exc' = "McpStartError"
    /\ outcome' = "raised"
    /\ pc' = "done"
    /\ UNCHANGED <<creds, use_memory, memory, container, clock, state, max_steps,
                   calls, memLog, decision, result, caught, ret, container0>>

\* lines 52-64: state.context = await memory.get_relevant_context(...)
RetrieveContext ==
    /\ pc = "context"
    /\ IF memory # "none"
       THEN \E env \in RetrievalEnvs(container), query_ok \in BOOLEAN :
              /\ state' = [state EXCEPT !.context =
                             GetRelevantContext(memory, container, env, state.session_id,
                                                HistoryLimit, SimilarLimit, query_ok)]
              /\ memLog' = Append(memLog, MemOp("get_relevant_context", TRUE))
       ELSE UNCHANGED <<state, memLog>>
    /\ pc' = "plan"
    /\ UNCHANGED <<creds, use_memory, memory, container, clock, max_steps, calls,
                   decision, result, exc, caught, outcome, ret, container0>>

\* plans the planner may put in its output
RECURSIVE SeqsUpTo(_, _)
SeqsUpTo(S, n) ==
    IF n = 0 THEN {<<>>}
    ELSE LET shorter == SeqsUpTo(S, n - 1)
         IN  shorter \cup {Append(q, x) : q \in shorter, x \in S}

PlanValues ==
    {ListPlan(p) : p \in SeqsUpTo(StepTexts, MaxPlanLen)}
        \cup { [kind |-> "str", items |-> <<"a", "b">>],
               [kind |-> "null", items |-> <<>>],
               [kind |-> "num", items |-> <<>>] }

\* texts the model may answer the planner prompt with
PlannerOutputs ==
    {<<LBrace, Member("steps", p), RBrace>> : p \in PlanValues}
        \cup { <<Txt>>,
               <<Txt, LBrace, Member("steps", ListPlan(<<"s1", "s2">>)), RBrace, Txt>>,
               <<LBrace, Member("steps", ListPlan(<<"s1">>)), RBrace, Txt, LBrace, RBrace>>,
               <<LBrace, Member("other", ListPlan(<<>>)), RBrace>>,
               <<LBrace, Txt, RBrace>>,
               <<RBrace, Txt, LBrace>> }

PlanPrompt(st) ==
    [phase |-> "plan", index |-> 0, step |-> "", with_context |-> HasContext(st)]

\* line 68: generate_plan returns and state.plan is set
GeneratePlan ==
    /\ pc = "plan"
    /\ \E text \in PlannerOutputs :
          /\ ParsePlan(text).ok
          /\ state' = [state EXCEPT !.plan = ParsePlan(text).plan]
          /\ calls' = Append(calls, Invocation(PlanPrompt(state), TRUE, text))
    /\ pc' = "exec"
    /\ UNCHANGED <<creds, use_memory, memory, container, clock, max_steps, memLog,
                   decision, result, exc, caught, outcome, ret, container0>>

\* line 68: generate_plan raises RuntimeError for an output it cannot parse
GeneratePlanParseFails ==
    /\ pc = "plan"
    /\ \E text \in PlannerOutputs :
          /\ ~ParsePlan(text).ok
          /\ calls' = Append(calls, Invocation(PlanPrompt(state), TRUE, text))
    /\ exc' = "PlanParseError"
    /\ pc' = "error"
    /\ UNCHANGED <<creds, use_memory, memory, container, clock, state, max_steps,
                   memLog, decision, result, caught, outcome, ret, container0>>

\* the exception of generate_plan leaving the run past the except clause
GeneratePlanRaisesUnhandled ==
    /\ pc = "plan"
    /\ calls' = Append(calls, Invocation(PlanPrompt(state), FALSE, <<>>))
    /\ exc' = "PlanModelError"
    /\ pc' = "finally"
    /\ UNCHANGED <<creds, use_memory, memory, container, clock, state, max_steps,
                   memLog, decision, result, caught, outcome, ret, container0>>

\* line 68: the model invocation of generate_plan raises
GeneratePlanRaises ==
    /\ pc = "plan"
    /\ calls' = Append(calls, Invocation(PlanPrompt(state), FALSE, <<>>))
    /\ exc' = "PlanModelError"
    /\ pc' = "error"
    /\ UNCHANGED <<creds, use_memory, memory, container, clock, state, max_steps,
                   memLog, decision, result, caught, outcome, ret, container0>>

\* texts the model may answer the reflection prompt with
ReflectOutputs ==
    { <<"CONTINUE">>, <<" ", "continue", " ">>, <<"RETRY">>, <<"fail">>,
      <<"x", "RETRY", "x">>, <<"FAIL", " ", "CONTINUE">>, <<"FAIL", " ", "retry">>,
      <<"failure">>, <<"x">>, <<>> }

ReflectPrompt(st) ==
    [ phase |-> "reflect", index |-> 0, step |-> "",
      with_context |-> (HasContext(st) /\ st.context.similar_interactions # <<>>) ]

\* the run going back to planning when the decision is RETRY
ReflectRetryReplans ==
    /\ pc = "reflect"
    /\ \E output \in ReflectOutputs :
          /\ decision' = Decide(output)
          /\ result' = ResultFor(Decide(output), state)
          /\ calls' = Append(calls, Invocation(ReflectPrompt(state), TRUE, output))
          /\ pc' = IF Decide(output) = "RETRY" THEN "plan" ELSE "persist"
    /\ UNCHANGED <<creds, use_memory, memory, container, clock, state, max_steps,
                   memLog, exc, caught, outcome, ret, container0>>

\* lines 75-88: reflect returns and the result string is chosen
Reflect ==
    /\ pc = "reflect"
    /\ \E output \in ReflectOutputs :
          /\ decision' = Decide(output)
          /\ result' = ResultFor(Decide(output), state)
          /\ calls' = Append(calls, Invocation(ReflectPrompt(state), TRUE, output))
    /\ pc' = "persist"
    /\ UNCHANGED <<creds, use_memory, memory, container, clock, state, max_steps,
                   memLog, exc, caught, outcome, ret, container0>>

\* line 75: the model invocation of reflect raises
ReflectRaises ==
    /\ pc = "reflect"
    /\ calls' = Append(calls, Invocation(ReflectPrompt(state), FALSE, <<>>))
    /\ exc' = "ReflectModelError"
    /\ pc' = "error"
    /\ UNCHANGED <<creds, use_memory, memory, container, clock, state, max_steps,
                   memLog, decision, result, caught, outcome, ret, container0>>

\* lines 90-108: store the interaction, failure swallowed; then `return result`
Persist ==
    /\ pc = "persist"
    /\ IF memory # "none"
       THEN \E env \in StoreEnvs :
              LET a == SuccessRecord(state, decision, result)
                  r == StoreInteraction(memory, container, a, env)
              IN  /\ container' = r.docs
                  /\ clock' = env.t2
                  /\ memLog' = Append(memLog, StoreOp(r.ok, a))
       ELSE UNCHANGED <<container, clock, memLog>>
    /\ pc' = "finally"
    /\ UNCHANGED <<creds, use_memory, memory, state, max_steps, calls,
                   decision, result, exc, caught, outcome, ret, container0>>

\* lines 110-128: store the error interaction, failure swallowed; then `raise`
ErrorPersist ==
    /\ pc = "error"
    /\ caught' = exc
    /\ IF memory # "none"
       THEN \E env \in StoreEnvs :
              LET a == ErrorRecord(state, exc)
                  r == StoreInteraction(memory, container, a, env)
              IN  /\ container' = r.docs
                  /\ clock' = env.t2
                  /\ memLog' = Append(memLog, StoreOp(r.ok, a))
       ELSE UNCHANGED <<container, clock, memLog>>
    /\ pc' = "finally"
    /\ UNCHANGED <<creds, use_memory, memory, state, max_steps, calls,
                   decision, result, exc, outcome, ret, container0>>

\* lines 130-133: the finally block, then the run returns or raises; an
\* exception raised by close() replaces the one in flight
Finally ==
    /\ pc = "finally"
    /\ IF memory # "none"
       THEN \E close_ok \in BOOLEAN :
              /\ memLog' = Append(memLog, MemOp("close", ~CloseRaises(memory, close_ok)))
              /\ exc' = IF CloseRaises(memory, close_ok) THEN "CloseError" ELSE exc
       ELSE UNCHANGED <<memLog, exc>>
    /\ outcome' = IF exc' = "none" THEN "returned" ELSE "raised"
    /\ pc' = "done"
    /\ UNCHANGED <<creds, use_memory, memory, container, clock, state, max_steps,
                   calls, decision, result, caught, ret, container0>>

(***************************************************************************)
(* Spec: one invocation of run_autonomous_agent.                           *)
(***************************************************************************)
NoRet ==
    [ op |-> "none", session |-> "", limit |-> 0, qemb |-> <<>>,
      value |-> <<>>, tiers |-> <<>>, embed_ok |-> TRUE, raised |-> FALSE,
      again |-> FALSE ]

\* documents other writers or earlier runs left in the container: one of
\* the run's session, and one of another session that has no embedding
InitDocs ==
    { [ session_id |-> "sA", timestamp |-> 0, goal |-> Goal,
        plan |-> ListPlan(<<"s1">>), observations |-> <<"obs_a">>,
        result |-> "obs_a", embedding |-> <<1, 0>>,
        metadata |-> [decision |-> "CONTINUE", steps_executed |-> 1],
        id |-> <<>> ],
      [ session_id |-> "sB", timestamp |-> 0, goal |-> Goal,
        plan |-> ListPlan(<<"s1">>), observations |-> <<"obs_a">>,
        result |-> "obs_a", embedding |-> NoEmbedding,
        metadata |-> [decision |-> "CONTINUE", steps_executed |-> 1],
        id |-> <<>> ] }

\* the containers a run or a caller starts with: each record is there once,
\* and the records are listed in one order only, since the order in which
\* the backend enumerates them is chosen at each query
InitContainers ==
    { c \in SeqsUpTo(InitDocs, MaxInitDocs) :
        \A i, j \in 1..Len(c) :
            i < j => (c[i].session_id = "sA" /\ c[j].session_id = "sB") }

\* credentials a run starts from: none, either shape, or both
RunCredentials ==
    {c \in Credentials : c.endpoint = c.key /\ c.connection_string # "postgres://h"}

Init ==
    /\ pc = "start"
    /\ creds \in RunCredentials
    /\ use_memory \in BOOLEAN
    /\ memory = "none"
    /\ container \in InitContainers
    /\ clock = 0
    /\ state = AgentState(RunSession)
    /\ max_steps = DefaultMaxSteps
    /\ calls = <<>>
    /\ memLog = <<>>
    /\ decision = "none"
    /\ result = "none"
    /\ exc = "none"
    /\ caught = "none"
    /\ outcome = "running"
    /\ ret = NoRet
    /\ container0 = container

Next ==
    \/ ConstructMemory
    \/ StartServers
    \/ StartServersRaises
    \/ RetrieveContext
    \/ GeneratePlan
    \/ GeneratePlanParseFails
    \/ GeneratePlanRaises
    \/ ExecStep
    \/ ExecStepRaises
    \/ ExecLenRaises
    \/ ExecExit
    \/ Reflect
    \/ ReflectRaises
    \/ Persist
    \/ ErrorPersist
    \/ Finally

Spec == Init /\ [][Next]_vars

\* a run whose every call eventually returns or raises: the interpreter takes
\* the next step of run_autonomous_agent whenever there is one
SpecLive == Init /\ [][Next]_vars /\ WF_vars(Next)

(***************************************************************************)
(* SpecExec: execute_plan called on a fresh AgentState, for plans up to    *)
(* MaxPlanLen steps and one longer than the default limit, and for step    *)
(* limits up to MaxStepLimit and the default one.                          *)
(***************************************************************************)
LongPlan == [i \in 1..(DefaultMaxSteps + 1) |-> "s1"]

ExecPlans == SeqsUpTo(StepTexts, MaxPlanLen) \cup {LongPlan}

StepLimits == 0..MaxStepLimit \cup {DefaultMaxSteps}

SomeContext == [set |-> TRUE, recent_history |-> <<>>, similar_interactions |-> <<>>]

InitExec ==
    /\ pc = "exec"
    /\ creds = [endpoint |-> FALSE, key |-> FALSE, connection_string |-> ""]
    /\ use_memory = FALSE
    /\ memory = "none"
    /\ container = <<>>
    /\ clock = 0
    /\ \E p \in ExecPlans, c \in {NoContext, SomeContext} :
          state = [AgentState(RunSession) EXCEPT !.plan = ListPlan(p), !.context = c]
    /\ max_steps \in StepLimits
    /\ calls = <<>>
    /\ memLog = <<>>
    /\ decision = "none"
    /\ result = "none"
    /\ exc = "none"
    /\ caught = "none"
    /\ outcome = "running"
    /\ ret = NoRet
    /\ container0 = container

NextExec ==
    \/ ExecStep
    \/ ExecStepRaises
    \/ ExecExit

SpecExec == InitExec /\ [][NextExec]_vars

(***************************************************************************)
(* SpecMem: a caller constructs a MemoryStore and calls its operations     *)
(* (as agent/test_memory.py does), on a container of at most MaxDocs       *)
(* documents.                                                              *)
(***************************************************************************)
Limits == {0, 1, 2, SimilarLimit}

\* credentials a caller constructs the store with: those of a run, an
\* endpoint without its key (alone and beside a connection string), and a
\* connection string of another scheme
MemCredentials ==
    RunCredentials \cup
        { [endpoint |-> TRUE, key |-> FALSE, connection_string |-> ""],
          [endpoint |-> TRUE, key |-> FALSE, connection_string |-> "mongodb://h"],
          [endpoint |-> FALSE, key |-> FALSE, connection_string |-> "postgres://h"] }

\* MemoryStore() in the caller
MemConstruct ==
    /\ pc = "new"
    /\ \E connect_ok \in BOOLEAN :
          LET m == NewMemoryStore(creds, connect_ok)
          IN  /\ memory' = m.client_type
              /\ pc' = IF m.error = "none" THEN "mem" ELSE "failed"
              /\ ret' = [NoRet EXCEPT !.op = "construct", !.raised = (m.error # "none")]
              /\ exc' = m.error
    /\ UNCHANGED <<creds, use_memory, container, clock, state, max_steps, calls,
                   memLog, decision, result, caught, outcome, container0>>

\* await memory.store_interaction(...)
MemStore ==
    /\ pc = "mem"
    /\ Len(container) < MaxDocs
    /\ \E sid \in Sessions, env \in StoreEnvs :
          LET a == [ session_id |-> sid, goal |-> Goal, plan |-> ListPlan(<<"s1">>),
                     observations |-> <<"obs_a">>, result |-> "obs_b",
                     metadata |-> [test |-> TRUE] ]
              r == StoreInteraction(memory, container, a, env)
          IN  /\ container' = r.docs
              /\ clock' = env.t2
              /\ ret' = [NoRet EXCEPT !.op = "store_interaction", !.session = sid,
                                      !.embed_ok = env.embed_ok, !.raised = ~r.ok,
                                      !.tiers = IF r.ok THEN <<>>
                                                ELSE <<Tier(r.error, FALSE)>>]
    /\ pc' = "returned"
    /\ UNCHANGED <<creds, use_memory, memory, state, max_steps, calls, memLog,
                   decision, result, exc, caught, outcome, container0>>

RetrieveRet(limit, qemb, r) ==
    [ op |-> "retrieve_similar_interactions", session |-> "", limit |-> limit,
      qemb |-> qemb, value |-> r.value, tiers |-> r.tiers,
      embed_ok |-> r.embed_ok, raised |-> r.raised, again |-> FALSE ]

\* await memory.retrieve_similar_interactions(query, limit)
MemRetrieve ==
    /\ pc = "mem"
    /\ \E env \in RetrievalEnvs(container), limit \in Limits :
          ret' = RetrieveRet(limit, env.qemb,
                     RetrieveSimilarInteractions(memory, container, env, limit,
                                                 DefaultMinScore))
    /\ pc' = "returned"
    /\ UNCHANGED <<creds, use_memory, memory, container, clock, state, max_steps,
                   calls, memLog, decision, result, exc, caught, outcome, container0>>

\* memory.get_recent_history(session_id, limit)
MemHistory ==
    /\ pc = "mem"
    /\ \E sid \in Sessions, limit \in Limits, order \in Orders(container),
          query_ok \in BOOLEAN :
          ret' = [NoRet EXCEPT !.op = "get_recent_history", !.session = sid,
                               !.limit = limit,
                               !.value = GetRecentHistory(memory, container, order,
                                                          sid, limit, query_ok),
                               !.tiers = <<Tier("history", query_ok)>>]
    /\ pc' = "returned"
    /\ UNCHANGED <<creds, use_memory, memory, container, clock, state, max_steps,
                   calls, memLog, decision, result, exc, caught, outcome, container0>>

\* memory.close(), also on a store that was closed before (again)
MemClose ==
    /\ pc \in {"mem", "closed"}
    /\ \E close_ok \in BOOLEAN :
          ret' = [NoRet EXCEPT !.op = "close", !.raised = CloseRaises(memory, close_ok),
                               !.tiers = CloseClient(memory, close_ok),
                               !.again = (pc = "closed")]
    /\ pc' = "returned"
    /\ UNCHANGED <<creds, use_memory, memory, container, clock, state, max_steps,
                   calls, memLog, decision, result, exc, caught, outcome, container0>>

\* the caller takes the value and goes on; close() is its last call on the
\* store, which it may repeat
MemReturn ==
    /\ pc = "returned"
    /\ pc' = IF ret.op = "close" THEN "closed" ELSE "mem"
    /\ ret' = NoRet
    /\ UNCHANGED <<creds, use_memory, memory, container, clock, state, max_steps,
                   calls, memLog, decision, result, exc, caught, outcome, container0>>

InitMem ==
    /\ pc = "new"
    /\ creds \in MemCredentials
    /\ use_memory = TRUE
    /\ memory = "none"
    /\ container \in InitContainers
    /\ clock = 0
    /\ state = AgentState(RunSession)
    /\ max_steps = DefaultMaxSteps
    /\ calls = <<>>
    /\ memLog = <<>>
    /\ decision = "none"
    /\ result = "none"
    /\ exc = "none"
    /\ caught = "none"
    /\ outcome = "running"
    /\ ret = NoRet
    /\ container0 = container

NextMem ==
    \/ MemConstruct
    \/ MemStore
    \/ MemRetrieve
    \/ MemHistory
    \/ MemClose
    \/ MemReturn

SpecMem == InitMem /\ [][NextMem]_vars

(***************************************************************************)
(* Properties.                                                             *)
(***************************************************************************)
CloseCalls == Cardinality({i \in 1..Len(memLog) : memLog[i].op = "close"})

StoreCalls == {i \in 1..Len(memLog) : memLog[i].op = "store_interaction"}

\* records the run added to the container
NewRecords == Len(container) - Len(container0)

\* C1: in a run that constructed a MemoryStore, close() has been called
\* exactly once when the run returns or raises, on every exit path, the
\* failure to start the run included.
C1_ClosedExactlyOnce ==
    /\ CloseCalls <= 1
    /\ (pc = "done" /\ memory # "none") => CloseCalls = 1

\* C2 as stated: a run with memory enabled has created exactly one record
\* when it ends, never zero and never two.
C2_ExactlyOneRecord ==
    (pc = "done" /\ use_memory) => NewRecords = 1

\* C2 as amended: a run calls store_interaction at most once and creates at
\* most one record; it creates exactly one when that call succeeds, and none
\* when the call is not made; the call is made exactly once in every run
\* that constructed the store and got as far as planning.
C2_AtMostOneRecord ==
    /\ NewRecords <= 1
    /\ Cardinality(StoreCalls) <= 1
    /\ (\E i \in StoreCalls : memLog[i].ok) => NewRecords = 1
    /\ StoreCalls = {} => NewRecords = 0
    /\ (pc = "done" /\ memory # "none" /\ calls # <<>>) => Cardinality(StoreCalls) = 1

C2_Witness ==
    /\ pc = "done"
    /\ use_memory
    /\ NewRecords = 1
    /\ decision = "RETRY"

\* C3: when generate_plan, execute_plan or reflect raised in a run with a
\* memory store, the run has made one store_interaction call, with the error
\* string as result and error = True in the metadata, and it raises that
\* same exception, whether or not the call succeeded.
C3_ErrorPersistedAndReraised ==
    (pc = "done" /\ caught # "none" /\ memory # "none") =>
        /\ Cardinality(StoreCalls) = 1
        /\ \A i \in StoreCalls :
              /\ memLog[i].args.result = ErrorResult(caught)
              /\ memLog[i].args.metadata = [error |-> TRUE, error_message |-> caught]
        /\ outcome = "raised"
        /\ exc = caught

\* C4: a run in which planning, every executed step and reflection succeeded
\* returns its result string and does not raise, whichever memory operations
\* failed.
C4_ReturnsDespiteMemoryFailures ==
    (pc = "done" /\ decision # "none") => (outcome = "returned" /\ exc = "none")

\* C5: state.current_step is at most len(state.plan) and at most max_steps,
\* in every state, for every plan length and step limit.
C5_StepWithinBounds ==
    /\ state.current_step <= PlanLen(state.plan)
    /\ state.current_step <= max_steps

C5_Witness ==
    /\ state.completed
    /\ max_steps = DefaultMaxSteps
    /\ PlanLen(state.plan) > max_steps
    /\ state.current_step = max_steps

\* C6: len(state.observations) equals state.current_step before and after
\* every model invocation of execute_plan, at loop exit, and when a model
\* invocation raises in the middle of the loop.
C6_ObservationsMatchStep ==
    Len(state.observations) = state.current_step

C6_Witness ==
    /\ pc = "error"
    /\ exc = "ExecModelError"
    /\ state.current_step >= 1
    /\ state.current_step < PlanLen(state.plan)

\* C7: when no model invocation failed, execute_plan on a fresh state with a
\* plan of n steps and step limit m returns after exactly min(n, m) model
\* invocations, one per plan step in plan order, with completed true,
\* current_step = min(n, m) and min(n, m) observations, the i-th being the
\* output of the i-th invocation.
C7_ExecutesMinSteps ==
    pc = "reflect" =>
        LET k == Min(PlanLen(state.plan), max_steps)
        IN  /\ state.completed
            /\ state.current_step = k
            /\ Len(state.observations) = k
            /\ Len(calls) = k
            /\ \A i \in 1..k :
                  /\ calls[i].ok
                  /\ calls[i].phase = "execute"
                  /\ calls[i].index = i
                  /\ calls[i].step = state.plan.items[i]
                  /\ state.observations[i] = calls[i].output

C7_Witness ==
    /\ pc = "reflect"
    /\ state.plan = ListPlan(<<"s1", "s2">>)
    /\ max_steps = DefaultMaxSteps
    /\ state.observations = <<"obs_a", "obs_b">>
    /\ Len(calls) = 2

RetrieveReturned == pc = "returned" /\ ret.op = "retrieve_similar_interactions"

NativeRaised == ret.tiers # <<>> /\ ret.tiers[1] = Tier("native", FALSE)

BruteForceRaised == \E i \in 1..Len(ret.tiers) : ret.tiers[i] = Tier("manual", FALSE)

\* the value is what the brute-force tier computes for some enumeration order
IsBruteForceResult(value) ==
    \E order \in Orders(container) :
        value = ManualSimilarity(container, [qemb |-> ret.qemb, order |-> order],
                                 ret.limit)

\* C8: on either backend, when the query was embedded, the native vector
\* search raised, a record with an embedding is stored and limit >= 1 (and
\* the brute-force fetch did not raise), the value returned is non-empty and
\* is the brute-force cosine ranking of the stored records.
C8_FallbackToBruteForce ==
    ( /\ RetrieveReturned
      /\ ret.embed_ok
      /\ NativeRaised
      /\ ~BruteForceRaised
      /\ ret.limit >= 1
      /\ \E i \in 1..Len(container) : HasEmbedding(container[i]) )
    => (ret.value # <<>> /\ IsBruteForceResult(ret.value))

\* the value lists the min(limit, n) documents with the latest timestamps,
\* newest first
IsNewestFirst(value, docs, limit) ==
    /\ Len(value) = Min(limit, Len(docs))
    /\ \A i, j \in 1..Len(value) : i < j => value[i].timestamp >= value[j].timestamp
    /\ \E f \in [1..Len(value) -> 1..Len(docs)] :
          /\ \A i, j \in 1..Len(value) : i # j => f[i] # f[j]
          /\ \A i \in 1..Len(value) : value[i] = View(docs[f[i]])
          /\ \A k \in 1..Len(docs) :
                (\A i \in 1..Len(value) : f[i] # k) =>
                    \A i \in 1..Len(value) : docs[k].timestamp <= value[i].timestamp

\* C9: when the native vector search and then the brute-force retrieval
\* failed and the simple listing query succeeded, the value returned is the
\* most recent `limit` records, newest first.
C9_ChronologicalFallback ==
    ( /\ RetrieveReturned
      /\ ret.tiers = <<Tier("native", FALSE), Tier("manual", FALSE), Tier("simple", TRUE)>> )
    => IsNewestFirst(ret.value, container, ret.limit)

C9_Witness ==
    /\ RetrieveReturned
    /\ ret.tiers = <<Tier("native", FALSE), Tier("manual", FALSE), Tier("simple", TRUE)>>
    /\ ret.limit = 1
    /\ Len(container) = 2
    /\ container[1].timestamp < container[2].timestamp
    /\ ret.value = <<View(container[2])>>

\* C10: retrieve_similar_interactions never raises: it returns a list for
\* every combination of failures, the empty list when embedding generation
\* fails and when every tier that ran failed.
C10_RetrieveNeverRaises ==
    RetrieveReturned =>
        /\ ~ret.raised
        /\ DOMAIN ret.value = 1..Len(ret.value)
        /\ ~ret.embed_ok => ret.value = <<>>
        /\ (\A i \in 1..Len(ret.tiers) : ~ret.tiers[i].ok) => ret.value = <<>>

C10_Witness ==
    /\ RetrieveReturned
    /\ container # <<>>
    /\ ret.limit >= 1
    /\ ret.tiers = <<Tier("native", FALSE), Tier("manual", FALSE), Tier("simple", FALSE)>>
    /\ ret.value = <<>>

\* C11: when planning, execution and reflection succeeded, the result of the
\* run (the value `return result` hands to the caller) is fixed by the
\* decision: FAIL gives the failure message, RETRY the needs-refinement
\* message, CONTINUE the last observation, or the no-observations message
\* when there is none; the same string is the result passed to
\* store_interaction.
C11_ResultByDecision ==
    decision # "none" =>
        /\ decision \in {"CONTINUE", "RETRY", "FAIL"}
        /\ decision = "FAIL" =>
              result = "Agent failed to complete the task."
        /\ decision = "RETRY" =>
              result = "Task needs refinement. Consider rephrasing or breaking into smaller goals."
        /\ (decision = "CONTINUE" /\ state.observations # <<>>) =>
              result = state.observations[Len(state.observations)]
        /\ (decision = "CONTINUE" /\ state.observations = <<>>) =>
              result = "Task completed but no observations recorded."
        /\ \A i \in StoreCalls : memLog[i].args.result = result

C11_Witness ==
    /\ pc = "done"
    /\ outcome = "returned"
    /\ decision = "CONTINUE"
    /\ Len(state.observations) = 2
    /\ state.observations[1] # state.observations[2]
    /\ result = state.observations[2]
    /\ \E i \in StoreCalls : memLog[i].ok /\ memLog[i].args.result = result

\* the model invocations of reflect that returned
ReflectCalls == {i \in 1..Len(calls) : calls[i].phase = "reflect" /\ calls[i].ok}

\* C12: for every model output reflect returns one of CONTINUE, RETRY, FAIL:
\* the trimmed, upper-cased output when that is exactly one of the tokens;
\* otherwise a token that occurs in the trimmed, upper-cased output;
\* CONTINUE when no token occurs in it.
C12_DecisionFromOutput ==
    \A i \in ReflectCalls :
        LET d == Normalise(calls[i].output)
            tokens == {"CONTINUE", "RETRY", "FAIL"}
            exact == Len(d) = 1 /\ d[1] \in tokens
            occurring == {t \in tokens : Occurs(t, d)}
        IN  /\ decision \in tokens
            /\ exact => decision = d[1]
            /\ (~exact /\ occurring # {}) => decision \in occurring
            /\ occurring = {} => decision = "CONTINUE"

C12_Witness ==
    /\ decision = "FAIL"
    /\ \E i \in ReflectCalls : calls[i].output = <<"failure">>

\* the model invocations of generate_plan that returned
PlanCalls == {i \in 1..Len(calls) : calls[i].phase = "plan" /\ calls[i].ok}

\* generate_plan raised its parse error in this run
PlanParseFailed == exc = "PlanParseError" \/ caught = "PlanParseError"

\* the position of the brace that closes the brace at position i, 0 if none
RECURSIVE BalancedEnd(_, _, _)
BalancedEnd(text, i, depth) ==
    IF i > Len(text) THEN 0
    ELSE LET d == depth + (IF text[i].t = "{" THEN 1
                           ELSE IF text[i].t = "}" THEN -1 ELSE 0)
         IN  IF d = 0 THEN i ELSE BalancedEnd(text, i + 1, d)

\* the first balanced {...} fragment of a text, <<>> if there is none
FirstBalanced(text) ==
    LET opens == Positions(text, "{")
    IN  IF opens = {} THEN <<>>
        ELSE LET first == SetMin(opens)
                 end == BalancedEnd(text, first, 0)
             IN  IF end = 0 THEN <<>> ELSE SubSeq(text, first, end)

\* the fragment is an object with a steps member
HasSteps(frag) == frag # <<>> /\ JsonParses(frag) /\ StepsMembers(frag) # {}

StepsOf(frag) == frag[SetMax(StepsMembers(frag))].value

\* C13: for every planner output whose first balanced {...} fragment is an
\* object with a steps list, generate_plan returns exactly that list,
\* whatever precedes or follows the fragment, following text with braces
\* included.
C13_FirstBalancedFragment ==
    \A i \in PlanCalls :
        LET frag == FirstBalanced(calls[i].output)
        IN  (HasSteps(frag) /\ StepsOf(frag).kind = "list") =>
                (~PlanParseFailed /\ state.plan = StepsOf(frag))

\* C14: generate_plan either returns a sequence of strings taken from the
\* steps field of the parsed object or fails with the plan-parse error; it
\* fails whenever the output has no brace-delimited fragment, the fragment
\* does not parse or the object has no usable steps field, and it never
\* returns a value that is not a sequence of strings.
C14_PlanIsSequenceOrError ==
    \A i \in PlanCalls :
        LET frag == RegexMatch(calls[i].output)
        IN  /\ ~PlanParseFailed =>
                  (HasSteps(frag) /\ state.plan = StepsOf(frag) /\ state.plan.kind = "list")
            /\ ~(HasSteps(frag) /\ StepsOf(frag).kind = "list") => PlanParseFailed

\* C15: construction selects the backend from the credentials: endpoint and
\* key select sql, also beside a mongodb connection string; otherwise a
\* connection string that begins with the mongodb scheme selects mongodb;
\* otherwise construction fails with the configuration error and there is
\* no client.
C15_BackendSelection ==
    pc # "new" =>
        LET both == creds.endpoint /\ creds.key
            mongo == creds.connection_string = "mongodb://h"
        IN  /\ both => (memory = "sql" \/ exc = "ConnectError")
            /\ (~both /\ mongo) => (memory = "mongodb" \/ exc = "ConnectError")
            /\ (~both /\ ~mongo) => (pc = "failed" /\ exc = "ValueError")
            /\ exc = "ValueError" => (~both /\ ~mongo)
            /\ pc = "failed" <=> exc # "none"
            /\ pc = "failed" => memory = "none"

C15_Witness ==
    /\ pc = "mem"
    /\ creds = [endpoint |-> TRUE, key |-> TRUE, connection_string |-> "mongodb://h"]
    /\ memory = "sql"

HistoryReturned == pc = "returned" /\ ret.op = "get_recent_history"

HistoryQueryOk == ret.tiers = <<Tier("history", TRUE)>>

\* the records of a session, in the order they were written
SessionDocs(docs, s) == SelectSeq(docs, LAMBDA d : d.session_id = s)

\* C16: get_recent_history(session_id, limit) returns only records of that
\* session, namely the `limit` records of the session with the latest
\* timestamps, oldest first; it returns the empty list, without raising,
\* when the backend query fails.
C16_RecentHistory ==
    HistoryReturned =>
        /\ ~ret.raised
        /\ ~HistoryQueryOk => ret.value = <<>>
        /\ HistoryQueryOk =>
              /\ \A i \in 1..Len(ret.value) : ret.value[i].session_id = ret.session
              /\ IsNewestFirst(Reverse(ret.value), SessionDocs(container, ret.session),
                               ret.limit)

\* the record written last for the session of the call
LastStored == Last(SessionDocs(container, ret.session))

\* no other record of the session carries a timestamp as late as the last one
LastStoredIsLatest ==
    LET mine == SessionDocs(container, ret.session)
    IN  \A k \in 1..(Len(mine) - 1) : mine[k].timestamp < LastStored.timestamp

\* C17 as stated: after a store_interaction for session S, and no later one
\* for S, get_recent_history(S, limit >= 1) has that record as its last
\* element, with the stored fields.
C17_RoundTripNewestLast ==
    ( /\ HistoryReturned
      /\ HistoryQueryOk
      /\ ret.limit >= 1
      /\ SessionDocs(container, ret.session) # <<>> )
    => (ret.value # <<>> /\ Last(ret.value) = View(LastStored))

\* C17 as amended: the same, when the timestamp of the record is later than
\* the timestamp of every other record of S.
C17_RoundTripWhenLatest ==
    ( /\ HistoryReturned
      /\ HistoryQueryOk
      /\ ret.limit >= 1
      /\ SessionDocs(container, ret.session) # <<>>
      /\ LastStoredIsLatest )
    => (ret.value # <<>> /\ Last(ret.value) = View(LastStored))

C17_Witness ==
    /\ HistoryReturned
    /\ HistoryQueryOk
    /\ ret.limit = 2
    /\ Len(SessionDocs(container, ret.session)) = 2
    /\ LastStoredIsLatest
    /\ Len(ret.value) = 2
    /\ ret.value[1] # ret.value[2]
    /\ ret.value[2] = View(LastStored)
    /\ ret.value[2].result = "obs_b"

CloseReturned == pc = "returned" /\ ret.op = "close"

PhaseCalls(ph) == {i \in 1..Len(calls) : calls[i].phase = ph}

\* C19: in every run generate_plan is invoked at most once and execute_plan
\* at most once (no step is executed twice), and after reflect returned,
\* with RETRY or any decision, no planning or execution step follows.
C19_RetryIsTerminal ==
    /\ Cardinality(PhaseCalls("plan")) <= 1
    /\ Cardinality(PhaseCalls("reflect")) <= 1
    /\ \A i \in PhaseCalls("plan") : i = 1
    /\ \A i \in PhaseCalls("execute") : calls[i].index = i - 1
    /\ \A i \in PhaseCalls("reflect") : i = Len(calls)
    /\ decision # "none" => pc \in {"persist", "finally", "done"}

C19_Witness ==
    /\ pc = "done"
    /\ decision = "RETRY"
    /\ Len(calls) = 4
    /\ calls[2].phase = "execute"
    /\ calls[3].phase = "execute"
    /\ calls[4].phase = "reflect"

\* the brute-force similarity tier ran and returned
BruteForceReturned ==
    RetrieveReturned /\ \E i \in 1..Len(ret.tiers) : ret.tiers[i] = Tier("manual", TRUE)

\* the number of other records of the session that are as recent as docs[k]
AsRecent(docs, k) ==
    Cardinality({j \in 1..Len(docs) :
        /\ j # k
        /\ docs[j].session_id = docs[k].session_id
        /\ docs[j].timestamp >= docs[k].timestamp})

\* C20: a stored record without embedding never appears in the result of
\* the brute-force similarity tier, and it is still returned by
\* get_recent_history for its session when it is among the `limit` most
\* recent records.
C20_NoEmbeddingExcluded ==
    /\ BruteForceReturned =>
          \A i \in 1..Len(ret.value) :
              /\ \E k \in 1..Len(container) :
                    /\ HasEmbedding(container[k])
                    /\ ret.value[i] =
                          Scored(container[k], Similarity(ret.qemb, container[k]))
              /\ ~\E k \in 1..Len(container) :
                    /\ ~HasEmbedding(container[k])
                    /\ View(container[k]) = View(ret.value[i])
    /\ (HistoryReturned /\ HistoryQueryOk /\ ret.limit >= 1) =>
          \A k \in 1..Len(container) :
              ( /\ container[k].session_id = ret.session
                /\ ~HasEmbedding(container[k])
                /\ AsRecent(container, k) < ret.limit )
              => \E i \in 1..Len(ret.value) : ret.value[i] = View(container[k])

C20_Witness ==
    /\ BruteForceReturned
    /\ ret.limit >= 2
    /\ Len(container) = 2
    /\ ~HasEmbedding(container[1])
    /\ HasEmbedding(container[2])
    /\ Len(ret.value) = 1

\* C21: every record retrieve_similar_interactions returns has a similarity
\* to the query of at least min_score, in every tier and on both backends.
C21_MinScoreRespected ==
    RetrieveReturned =>
        \A i \in 1..Len(ret.value) :
            \E k \in 1..Len(container) :
                /\ View(container[k]) = View(ret.value[i])
                /\ HasEmbedding(container[k])
                /\ ~ScoreGt(DefaultMinScore, Similarity(ret.qemb, container[k]))

\* MemoryStore() raised in a run that asked for memory
ConstructFailed == use_memory /\ pc # "start" /\ memory = "none"

\* C22: when the construction of the MemoryStore fails, the run goes on
\* without memory: the failure does not end the run, planning, execution
\* and reflection take place, state.context stays None, and no
\* get_relevant_context, store_interaction or close is attempted.
C22_ContinuesWithoutMemory ==
    ConstructFailed =>
        /\ memLog = <<MemOp("construct", FALSE)>>
        /\ state.context = NoContext
        /\ exc \notin {"ValueError", "ConnectError"}
        /\ (pc = "done" /\ exc = "none") =>
              /\ outcome = "returned"
              /\ PlanCalls # {}
              /\ state.completed
              /\ ReflectCalls # {}
              /\ decision # "none"

C22_Witness ==
    /\ pc = "done"
    /\ use_memory
    /\ InitCosmosClient(creds) = "ValueError"
    /\ memory = "none"
    /\ outcome = "returned"
    /\ Len(state.observations) = 2
    /\ decision = "CONTINUE"

\* C23: the phases of a run occur in the order context retrieval, planning,
\* execution, reflection, persistence, none skipped on the success path:
\* generate_plan is invoked only after context retrieval ended,
\* execute_plan only after state.plan was set, reflect only when
\* state.completed is true, the non-error store_interaction only after
\* reflect returned; an exception from planning onwards leads to the
\* error-persist step and then to the end of the run.
C23_PhaseOrder ==
    /\ calls # <<>> => pc \notin {"start", "mcp", "context"}
    /\ (calls # <<>> /\ memory # "none") =>
          \E i \in 1..Len(memLog) : memLog[i].op = "get_relevant_context"
    /\ PhaseCalls("execute") # {} => (1 \in PlanCalls /\ pc \notin {"plan"})
    /\ PhaseCalls("reflect") # {} => (state.completed /\ 1 \in PlanCalls)
    /\ \A i \in StoreCalls :
          "decision" \in DOMAIN memLog[i].args.metadata =>
              (ReflectCalls # {} /\ memLog[i].args.metadata.decision = decision)
    /\ (pc = "done" /\ outcome = "returned") =>
          /\ PlanCalls # {}
          /\ state.completed
          /\ ReflectCalls # {}
          /\ memory # "none" =>
                \E i \in StoreCalls : "decision" \in DOMAIN memLog[i].args.metadata
    /\ exc \notin {"none", "McpStartError", "CloseError"} =>
          pc \in {"error", "finally", "done"}
    /\ (pc \in {"finally", "done"} /\ decision = "none" /\ exc # "McpStartError") =>
          /\ caught # "none"
          /\ memory # "none" =>
                \E i \in StoreCalls : "error" \in DOMAIN memLog[i].args.metadata
          /\ pc = "done" => outcome = "raised"

C23_Witness ==
    /\ pc = "done"
    /\ caught = "ReflectModelError"
    /\ memory # "none"
    /\ Len(calls) = 4
    /\ \E i \in StoreCalls : memLog[i].ok

\* C30: when the trimmed, upper-cased output is not exactly a token and
\* tokens occur in it, reflect chooses by the priority CONTINUE, RETRY,
\* FAIL, wherever the tokens stand in the text: CONTINUE when CONTINUE
\* occurs, else RETRY when RETRY occurs, and FAIL only when neither
\* CONTINUE nor RETRY occurs.
C30_TokenPriority ==
    \A i \in ReflectCalls :
        LET d == Normalise(calls[i].output)
            exact == Len(d) = 1 /\ d[1] \in {"CONTINUE", "RETRY", "FAIL"}
        IN  ~exact =>
                /\ Occurs("CONTINUE", d) => decision = "CONTINUE"
                /\ (~Occurs("CONTINUE", d) /\ Occurs("RETRY", d)) => decision = "RETRY"
                /\ decision = "FAIL" =>
                      (Occurs("FAIL", d) /\ ~Occurs("CONTINUE", d) /\ ~Occurs("RETRY", d))

C30_Witness ==
    /\ decision = "RETRY"
    /\ \E i \in ReflectCalls : calls[i].output = <<"FAIL", " ", "retry">>

\* C24 (as stated): whenever execute_plan's loop exits, for any reason,
\* state.completed is true afterwards, and completed never changes from true
\* to false; reflect and the error path never observe a state in which the
\* executor has stopped while completed is still false.
C24_CompletedAfterLoop ==
    /\ [](pc \in {"reflect", "error"} => state.completed)
    /\ [][state.completed => state'.completed]_vars

\* C24 (amended): whenever execute_plan's loop ends because its condition is
\* false (plan exhausted, step limit reached, or completed already true),
\* state.completed is true afterwards, and completed never changes from true
\* to false; when len(state.plan) or a model invocation raises inside the
\* loop, completed is still false and the error path observes it so.
C24_CompletedOnLoopExit ==
    /\ [](pc = "reflect" => state.completed)
    /\ [](pc = "error" => ~state.completed)
    /\ [][state.completed => state'.completed]_vars

C24_Witness ==
    /\ pc = "reflect"
    /\ state.completed
    /\ PlanLen(state.plan) = 2
    /\ max_steps = 1
    /\ state.current_step = 1

\* C25: the retrieval cascade runs a tier only when every tier before it
\* raised, in the order native, brute-force, chronological: a tier that
\* succeeds, with an empty result as well, is the last one that runs.
C25_NextTierOnlyOnFailure ==
    RetrieveReturned =>
        /\ Len(ret.tiers) <= 3
        /\ \A i \in 1..Len(ret.tiers) :
            /\ ret.tiers[i].tier = <<"native", "manual", "simple">>[i]
            /\ i < Len(ret.tiers) => ~ret.tiers[i].ok
        /\ (ret.tiers # <<>> /\ ret.tiers[1].ok /\ ret.value = <<>>)
               => ret.tiers = <<Tier("native", TRUE)>>

C25_Witness ==
    /\ RetrieveReturned
    /\ memory = "sql"
    /\ ret.tiers = <<Tier("native", TRUE)>>
    /\ ret.value = <<>>
    /\ ret.limit >= 1
    /\ \E k \in 1..Len(container) : HasEmbedding(container[k])

StoreReturns == pc = "mem" /\ pc' = "returned" /\ ret'.op = "store_interaction"

\* C26: store_interaction raises to its caller when embedding generation or
\* the backend insertion fails, and when embedding generation fails the
\* backing store is unchanged; a call that does not raise adds one record.
C26_StoreRaisesAndLeavesStore ==
    [][StoreReturns =>
          /\ ~ret'.embed_ok => (ret'.raised /\ container' = container)
          /\ ret'.tiers # <<>> => (ret'.raised /\ container' = container)
          /\ ~ret'.raised =>
                /\ ret'.tiers = <<>>
                /\ Len(container') = Len(container) + 1
                /\ SubSeq(container', 1, Len(container)) = container
                /\ HasEmbedding(container'[Len(container')])]_vars

C26_Witness ==
    /\ pc = "returned"
    /\ ret.op = "store_interaction"
    /\ ~ret.embed_ok
    /\ ret.raised
    /\ container # <<>>
    /\ container = container0

\* the stored records that carry an embedding
WithEmbedding == {k \in 1..Len(container) : HasEmbedding(container[k])}

\* C27: when the brute-force tier succeeds, its result is the min(limit, k)
\* records of highest similarity among the k stored records with an
\* embedding, in non-increasing order of similarity.
C27_BruteForceTopK ==
    BruteForceReturned =>
        LET n == Len(ret.value)
        IN  /\ n = Min(ret.limit, Cardinality(WithEmbedding))
            /\ \A i, j \in 1..n :
                 i < j => ~ScoreGt(ret.value[j].SimilarityScore,
                                   ret.value[i].SimilarityScore)
            /\ \E f \in [1..n -> WithEmbedding] :
                 /\ \A i, j \in 1..n : i # j => f[i] # f[j]
                 /\ \A i \in 1..n :
                      ret.value[i] = Scored(container[f[i]],
                                            Similarity(ret.qemb, container[f[i]]))
                 /\ \A k \in WithEmbedding :
                      (\A i \in 1..n : f[i] # k) =>
                          \A i \in 1..n :
                              ~ScoreGt(Similarity(ret.qemb, container[k]),
                                       ret.value[i].SimilarityScore)

C27_Witness ==
    /\ BruteForceReturned
    /\ ret.limit = 1
    /\ Len(container) = 2
    /\ WithEmbedding = {1, 2}
    /\ ScoreGt(Similarity(ret.qemb, container[2]), Similarity(ret.qemb, container[1]))
    /\ ret.value = <<Scored(container[2], Similarity(ret.qemb, container[2]))>>

\* C28: on the sql backend any two records inserted carry distinct ids, and
\* no store_interaction is rejected because of an id collision.
C28_DistinctIds ==
    memory = "sql" =>
        /\ \A i, j \in 1..Len(container) :
             (i # j /\ container[i].id # <<>>) => container[i].id # container[j].id
        /\ ~( /\ pc = "returned"
              /\ ret.op = "store_interaction"
              /\ ret.tiers = <<Tier("conflict", FALSE)>> )

\* the position of a phase in the run
PhaseRank(p) ==
    CASE p = "start"   -> 0
      [] p = "mcp"     -> 1
      [] p = "context" -> 2
      [] p = "plan"    -> 3
      [] p = "exec"    -> 4
      [] p = "reflect" -> 5
      [] p = "persist" -> 6
      [] p = "error"   -> 6
      [] p = "finally" -> 7
      [] p = "done"    -> 8

ErrorStored == pc \in {"finally", "done"} /\ caught # "none" /\ memory # "none"

\* C31: on the error path the record passed to store_interaction has
\* observations equal to state.observations followed by the error string
\* (one more entry than state.current_step) and plan equal to state.plan at
\* the time of failure (empty when planning failed), and the error handling
\* leaves state.observations, and the whole state, as it was.
C31_ErrorRecordContents ==
    /\ [](ErrorStored =>
            /\ Cardinality(StoreCalls) = 1
            /\ \A i \in StoreCalls :
                 LET a == memLog[i].args
                 IN  /\ a.observations =
                            Append(state.observations, ErrorResult(caught))
                     /\ Len(a.observations) = state.current_step + 1
                     /\ a.plan = state.plan
                     /\ caught \in {"PlanModelError", "PlanParseError"}
                            => a.plan = ListPlan(<<>>)
                     /\ a.result = ErrorResult(caught)
                     /\ a.session_id = state.session_id)
    /\ [][pc = "error" => state' = state]_vars

C31_Witness ==
    /\ ErrorStored
    /\ caught = "ExecModelError"
    /\ Len(state.observations) = 1
    /\ PlanLen(state.plan) = 2
    /\ container # container0
    /\ Last(container).observations =
           Append(state.observations, ErrorResult("ExecModelError"))
    /\ Last(container).plan = state.plan
====
